---------------------------- MODULE Spec2Model ----------------------------
(***************************************************************************)
(* The insult registry of src/insults.rs: five insult -> retort            *)
(* dictionaries and a list of failed retorts, decoded once and read-only   *)
(* afterwards, together with the lookup, enumeration and sampling          *)
(* operations of `impl Insults`.                                           *)
(*                                                                         *)
(* Option<&str> is a sequence of length at most one: None is <<>> and      *)
(* Some(x) is <<x>>.  A HashMap is a function from its keys to its values. *)
(***************************************************************************)
EXTENDS Naturals, Sequences, FiniteSets

\* ------------------------------------------------------------------ bounds
\* The registry holds at most MaxEntries insult/retort pairs in all five
\* dictionaries together, and at most MaxFailed failed retorts.
MaxEntries == 2
MaxFailed == 1

\* The phrases that occur as keys and as arguments.  A phrase is "unknown"
\* in every registry that has it in no dictionary.
Phrases == {"Have you stopped wearing diapers yet?", "Hey, look over there!"}

\* The strings the dictionaries map to; the data may hold the empty string.
Retorts == {"", "Why, did you want to borrow one?"}

\* The strings the failed_retorts list is drawn from.
FailedPhrases == {"", "I am rubber, you are glue."}

\* ------------------------------------------------------ the program's text
SwordMasterAdmonishment == "That's not fair, you're using the Sword Master's insults!"
CaptainRottinghamAdmonishment == "That's not fair, you're using Captain Rottingham's insults!"

\* Candidate retorts handed to is_retort: everything a lookup can return.
Candidates == Retorts \cup {SwordMasterAdmonishment, CaptainRottinghamAdmonishment}

DictNames == {"monkey_island1", "sword_master", "monkey_island3",
              "captain_rottingham", "monkey_island4"}

VARIABLES failed_retorts, monkey_island1, sword_master, monkey_island3,
          captain_rottingham, monkey_island4,
          pc, op, insult, cand, result, steps

registry == <<failed_retorts, monkey_island1, sword_master, monkey_island3,
              captain_rottingham, monkey_island4>>
vars == <<failed_retorts, monkey_island1, sword_master, monkey_island3,
          captain_rottingham, monkey_island4, pc, op, insult, cand, result, steps>>

\* ------------------------------------------------------------ Option<&str>
None == <<>>
Some(x) == <<x>>

\* ------------------------------------------------------------- the lookups
retort_from(i, map) ==
    IF i \in DOMAIN map THEN Some(map[i]) ELSE None

sword_master_retort(i) == retort_from(i, sword_master)

captain_rottingham_retort(i) == retort_from(i, captain_rottingham)

mi4_retort(i) == retort_from(i, monkey_island4)

mi1_retort_plain(i) == retort_from(i, monkey_island1)

mi1_retort(i) ==
    IF sword_master_retort(i) # None
    THEN Some(SwordMasterAdmonishment)
    ELSE retort_from(i, monkey_island1)

mi3_retort_swapped(i) == retort_from(i, monkey_island4)

mi3_retort(i) ==
    IF captain_rottingham_retort(i) # None
    THEN Some(CaptainRottinghamAdmonishment)
    ELSE retort_from(i, monkey_island3)

\* The or_else chain of retort, as the sequence of the results of the steps
\* it evaluates: a step is evaluated only if all the steps before it were None.
retort_steps_no_sword_master(i) ==
    LET s2 == <<None, mi1_retort(i)>>
        s3 == Append(s2, mi3_retort(i))
        s4 == Append(s3, captain_rottingham_retort(i))
        s5 == Append(s4, mi4_retort(i))
    IN  IF s2[2] # None THEN s2
        ELSE IF s3[3] # None THEN s3
        ELSE IF s4[4] # None THEN s4
        ELSE s5

retort_steps_rottingham_first(i) ==
    LET s1 == <<sword_master_retort(i)>>
        s2 == Append(s1, mi1_retort(i))
        s3 == Append(s2, captain_rottingham_retort(i))
        s4 == Append(s3, mi3_retort(i))
        s5 == Append(s4, mi4_retort(i))
    IN  IF s1[1] # None THEN s1
        ELSE IF s2[2] # None THEN s2
        ELSE IF s3[3] # None THEN s3
        ELSE IF s4[4] # None THEN s4
        ELSE s5

retort_steps_mi4_before_mi3(i) ==
    LET s1 == <<sword_master_retort(i)>>
        s2 == Append(s1, mi1_retort(i))
        s3 == Append(s2, mi4_retort(i))
        s4 == Append(s3, captain_rottingham_retort(i))
        s5 == Append(s4, mi3_retort(i))
    IN  IF s1[1] # None THEN s1
        ELSE IF s2[2] # None THEN s2
        ELSE IF s3[3] # None THEN s3
        ELSE IF s4[4] # None THEN s4
        ELSE s5

retort_steps_no_mi4(i) ==
    LET s1 == <<sword_master_retort(i)>>
        s2 == Append(s1, mi1_retort(i))
        s3 == Append(s2, mi3_retort(i))
        s4 == Append(s3, captain_rottingham_retort(i))
        s5 == Append(s4, None)
    IN  IF s1[1] # None THEN s1
        ELSE IF s2[2] # None THEN s2
        ELSE IF s3[3] # None THEN s3
        ELSE IF s4[4] # None THEN s4
        ELSE s5

retort_steps(i) ==
    LET s1 == <<sword_master_retort(i)>>
        s2 == Append(s1, mi1_retort(i))
        s3 == Append(s2, mi3_retort(i))
        s4 == Append(s3, captain_rottingham_retort(i))
        s5 == Append(s4, mi4_retort(i))
    IN  IF s1[1] # None THEN s1
        ELSE IF s2[2] # None THEN s2
        ELSE IF s3[3] # None THEN s3
        ELSE IF s4[4] # None THEN s4
        ELSE s5

\* The value of the chain is the result of the last step evaluated.
retort(i) == retort_steps(i)[Len(retort_steps(i))]

is_retort_sword_master_only(i, r) ==
    IF sword_master_retort(i) # None THEN sword_master_retort(i)[1] = r ELSE FALSE

is_retort(i, r) ==
    IF retort(i) # None THEN retort(i)[1] = r ELSE FALSE

\* ------------------------------------------------------------- enumeration
\* HashMap::keys().collect(): every key once, in an unspecified order.
keys(map) ==
    {s \in [1..Cardinality(DOMAIN map) -> DOMAIN map] :
        {s[n] : n \in 1..Cardinality(DOMAIN map)} = DOMAIN map}

mi1_insults == keys(monkey_island1)
sword_master_insults == keys(sword_master)
monkey_island3_insults == keys(monkey_island3)
captain_rottingham_insults == keys(captain_rottingham)
monkey_island4_insults == keys(monkey_island4)

\* The possible values of insults(): one per choice of the five key orders.
insults_sword_master_first ==
    {k2 \o k1 \o k3 \o k4 \o k5 :
        k1 \in mi1_insults, k2 \in sword_master_insults,
        k3 \in monkey_island3_insults, k4 \in captain_rottingham_insults,
        k5 \in monkey_island4_insults}

insults ==
    {k1 \o k2 \o k3 \o k4 \o k5 :
        k1 \in mi1_insults, k2 \in sword_master_insults,
        k3 \in monkey_island3_insults, k4 \in captain_rottingham_insults,
        k5 \in monkey_island4_insults}

\* rand::sample(rng, iter, 1): the reservoir holds one element of a non-empty
\* iterator, any of them by the randomness source, and nothing of an empty
\* one; indexing it with [0] then panics.
sample(xs) == {<<xs[n]>> : n \in 1..Len(xs)}

\* ------------------------------------------------------------ construction
Slots == DictNames \X Phrases

BoundedSeq(S, n) == UNION {[1..m -> S] : m \in 0..n}

\* Decodable::decode: the dictionary `name` of the decoded document.
Decoded(name, f) ==
    [p \in {q \in Phrases : <<name, q>> \in DOMAIN f} |-> f[<<name, p>>]]

Init ==
    /\ \E S \in {T \in SUBSET Slots : Cardinality(T) <= MaxEntries} :
         \E f \in [S -> Retorts] :
            /\ monkey_island1 = Decoded("monkey_island1", f)
            /\ sword_master = Decoded("sword_master", f)
            /\ monkey_island3 = Decoded("monkey_island3", f)
            /\ captain_rottingham = Decoded("captain_rottingham", f)
            /\ monkey_island4 = Decoded("monkey_island4", f)
    /\ failed_retorts \in BoundedSeq(FailedPhrases, MaxFailed)
    /\ pc = "idle"
    /\ op = "new"
    /\ insult = ""
    /\ cand = ""
    /\ result = <<>>
    /\ steps = <<>>

\* --------------------------------------------------------------- operations
\* A call that returns: the caller holds `r`.
Returns(name, i, c, r, st) ==
    /\ pc = "idle"
    /\ pc' = "done"
    /\ op' = name
    /\ insult' = i
    /\ cand' = c
    /\ result' = r
    /\ steps' = st
    /\ UNCHANGED registry

\* A call that panics: the process is gone, nothing is returned.
Panics(name, i) ==
    /\ pc = "idle"
    /\ pc' = "panic"
    /\ op' = name
    /\ insult' = i
    /\ cand' = ""
    /\ result' = <<>>
    /\ steps' = <<>>
    /\ UNCHANGED registry

FailedRetorts == Returns("failed_retorts", "", "", failed_retorts, <<>>)

rand_failed_retort_total(name, i) ==
    IF sample(failed_retorts) = {}
    THEN Returns(name, i, "", "", <<>>)
    ELSE \E s \in sample(failed_retorts) : Returns(name, i, "", s[1], <<>>)

rand_failed_retort(name, i) ==
    IF sample(failed_retorts) = {}
    THEN Panics(name, i)
    ELSE \E s \in sample(failed_retorts) : Returns(name, i, "", s[1], <<>>)

RandFailedRetort == rand_failed_retort("rand_failed_retort", "")

Retort == \E i \in Phrases : Returns("retort", i, "", retort(i), retort_steps(i))

retort_or_rand_fail_always_random(i) ==
    rand_failed_retort("retort_or_rand_fail", i)

retort_or_rand_fail(i) ==
    IF retort(i) # None
    THEN Returns("retort_or_rand_fail", i, "", retort(i)[1], <<>>)
    ELSE rand_failed_retort("retort_or_rand_fail", i)

RetortOrRandFail == \E i \in Phrases : retort_or_rand_fail(i)

Mi1Retort == \E i \in Phrases : Returns("mi1_retort", i, "", mi1_retort(i), <<>>)

SwordMasterRetort ==
    \E i \in Phrases : Returns("sword_master_retort", i, "", sword_master_retort(i), <<>>)

Mi3Retort == \E i \in Phrases : Returns("mi3_retort", i, "", mi3_retort(i), <<>>)

CaptainRottinghamRetort ==
    \E i \in Phrases :
        Returns("captain_rottingham_retort", i, "", captain_rottingham_retort(i), <<>>)

Mi4Retort == \E i \in Phrases : Returns("mi4_retort", i, "", mi4_retort(i), <<>>)

IsRetort ==
    \E i \in Phrases : \E r \in Candidates :
        Returns("is_retort", i, r, is_retort(i, r), <<>>)

Insults == \E all \in insults : Returns("insults", "", "", all, <<>>)

RandInsult ==
    \E all \in insults :
        IF sample(all) = {}
        THEN Panics("rand_insult", "")
        ELSE \E s \in sample(all) : Returns("rand_insult", "", "", s[1], <<>>)

Mi1Insults == \E k \in mi1_insults : Returns("mi1_insults", "", "", k, <<>>)

SwordMasterInsults ==
    \E k \in sword_master_insults : Returns("sword_master_insults", "", "", k, <<>>)

MonkeyIsland3Insults ==
    \E k \in monkey_island3_insults : Returns("monkey_island3_insults", "", "", k, <<>>)

CaptainRottinghamInsults ==
    \E k \in captain_rottingham_insults :
        Returns("captain_rottingham_insults", "", "", k, <<>>)

MonkeyIsland4Insults ==
    \E k \in monkey_island4_insults : Returns("monkey_island4_insults", "", "", k, <<>>)

\* One iteration of the loop of tests::test_all over insults(): the insult
\* must have a retort, and is_retort must accept it; a failed assertion panics.
test_all_step(i) ==
    IF retort(i) = None
    THEN Panics("test_all", i)
    ELSE IF is_retort(i, retort(i)[1])
         THEN Returns("test_all", i, retort(i)[1], TRUE, <<>>)
         ELSE Panics("test_all", i)

TestAll == \E all \in insults : \E n \in 1..Len(all) : test_all_step(all[n])

\* The caller drops the returned value and is ready for the next call.
Return ==
    /\ pc = "done"
    /\ pc' = "idle"
    /\ op' = "new"
    /\ insult' = ""
    /\ cand' = ""
    /\ result' = <<>>
    /\ steps' = <<>>
    /\ UNCHANGED registry

Next ==
    \/ FailedRetorts
    \/ RandFailedRetort
    \/ Retort
    \/ RetortOrRandFail
    \/ Mi1Retort
    \/ SwordMasterRetort
    \/ Mi3Retort
    \/ CaptainRottinghamRetort
    \/ Mi4Retort
    \/ IsRetort
    \/ Insults
    \/ RandInsult
    \/ Mi1Insults
    \/ SwordMasterInsults
    \/ MonkeyIsland3Insults
    \/ CaptainRottinghamInsults
    \/ MonkeyIsland4Insults
    \/ TestAll
    \/ Return

Spec == Init /\ [][Next]_vars

\* ------------------------------------------------------------------ claims
\* The phrases that are a key of at least one of the five dictionaries.
AnyKeys ==
    DOMAIN sword_master \cup DOMAIN monkey_island1 \cup DOMAIN monkey_island3
        \cup DOMAIN captain_rottingham \cup DOMAIN monkey_island4

\* The number of dictionaries that have p as a key.
Holders(p) ==
    Cardinality({d \in DictNames :
        \/ d = "sword_master" /\ p \in DOMAIN sword_master
        \/ d = "monkey_island1" /\ p \in DOMAIN monkey_island1
        \/ d = "monkey_island3" /\ p \in DOMAIN monkey_island3
        \/ d = "captain_rottingham" /\ p \in DOMAIN captain_rottingham
        \/ d = "monkey_island4" /\ p \in DOMAIN monkey_island4})

Range(s) == {s[n] : n \in 1..Len(s)}

Count(s, p) == Cardinality({n \in 1..Len(s) : s[n] = p})

\* C1: every phrase that is a key of some dictionary has a retort, and
\* is_retort accepts that retort for it: retort on such a phrase is present,
\* and the test loop over insults() never fails an assertion.
C1_EveryInsultHasAcceptedRetort ==
    /\ (op = "retort" /\ insult \in AnyKeys) => (pc = "done" /\ Len(result) = 1)
    /\ (op = "test_all") => (pc = "done" /\ insult \in AnyKeys /\ result = TRUE)

C1_Witness ==
    /\ pc = "done" /\ op = "test_all" /\ result = TRUE
    /\ insult \in DOMAIN monkey_island4 /\ Holders(insult) = 1

\* C2: retort is absent exactly for the phrases that are a key of no
\* dictionary, and is_retort rejects every candidate for such a phrase.
C2_AbsentIffUnknown ==
    /\ (op = "retort") => (result = None <=> insult \notin AnyKeys)
    /\ (op = "is_retort" /\ insult \notin AnyKeys) => (result = FALSE)

C2_Witness ==
    /\ pc = "done" /\ op = "retort" /\ result = None
    /\ insult \notin AnyKeys /\ AnyKeys # {}

\* C3: mi1_retort returns the Sword Master admonishment for every key of
\* sword_master, whatever monkey_island1 holds, and mi3_retort the Captain
\* Rottingham admonishment for every key of captain_rottingham, whatever
\* monkey_island3 holds; for any other phrase each is the plain lookup in
\* its own dictionary.
C3_OverrideAwareLookup ==
    /\ (op = "mi1_retort") =>
          result = IF insult \in DOMAIN sword_master
                   THEN Some(SwordMasterAdmonishment)
                   ELSE IF insult \in DOMAIN monkey_island1
                        THEN Some(monkey_island1[insult])
                        ELSE None
    /\ (op = "mi3_retort") =>
          result = IF insult \in DOMAIN captain_rottingham
                   THEN Some(CaptainRottinghamAdmonishment)
                   ELSE IF insult \in DOMAIN monkey_island3
                        THEN Some(monkey_island3[insult])
                        ELSE None

C3_Witness ==
    /\ pc = "done" /\ op = "mi1_retort"
    /\ insult \in DOMAIN sword_master /\ insult \in DOMAIN monkey_island1
    /\ result = Some(SwordMasterAdmonishment)

\* C4: for every key of sword_master, retort returns the value sword_master
\* maps it to, also when other dictionaries hold the phrase, while
\* mi1_retort on the same phrase returns the admonishment.
C4_SwordMasterWinsGlobally ==
    /\ (op = "retort" /\ insult \in DOMAIN sword_master) =>
          result = Some(sword_master[insult])
    /\ (op = "mi1_retort" /\ insult \in DOMAIN sword_master) =>
          result = Some(SwordMasterAdmonishment)

C4_Witness ==
    /\ pc = "done" /\ op = "retort"
    /\ insult \in DOMAIN sword_master /\ insult \in DOMAIN monkey_island1
    /\ monkey_island1[insult] # sword_master[insult]
    /\ result = Some(sword_master[insult])

\* C5 as stated: on overlap retort returns the value mapped by the first
\* dictionary that has the phrase, in the order sword_master,
\* monkey_island1, captain_rottingham, monkey_island4, monkey_island3.
C5_StatedPriority ==
    (op = "retort" /\ Holders(insult) >= 2) =>
        result =
            IF insult \in DOMAIN sword_master THEN Some(sword_master[insult])
            ELSE IF insult \in DOMAIN monkey_island1 THEN Some(monkey_island1[insult])
            ELSE IF insult \in DOMAIN captain_rottingham
                 THEN Some(captain_rottingham[insult])
            ELSE IF insult \in DOMAIN monkey_island4 THEN Some(monkey_island4[insult])
            ELSE Some(monkey_island3[insult])

\* C5 as amended: on overlap retort returns the value of sword_master if it
\* has the phrase, else that of monkey_island1, else the Captain Rottingham
\* admonishment if captain_rottingham has the phrase, else the value of
\* monkey_island3, else that of monkey_island4.
C5_CodePriority ==
    (op = "retort" /\ Holders(insult) >= 2) =>
        result =
            IF insult \in DOMAIN sword_master THEN Some(sword_master[insult])
            ELSE IF insult \in DOMAIN monkey_island1 THEN Some(monkey_island1[insult])
            ELSE IF insult \in DOMAIN captain_rottingham
                 THEN Some(CaptainRottinghamAdmonishment)
            ELSE IF insult \in DOMAIN monkey_island3 THEN Some(monkey_island3[insult])
            ELSE Some(monkey_island4[insult])

C5_Witness ==
    /\ pc = "done" /\ op = "retort" /\ Holders(insult) = 2
    /\ insult \in DOMAIN monkey_island3 /\ insult \in DOMAIN monkey_island4
    /\ monkey_island3[insult] # monkey_island4[insult]
    /\ result = Some(monkey_island3[insult])

\* C6 as stated: mi3_retort is the plain lookup in monkey_island3 for every
\* phrase, the keys of captain_rottingham included.
C6_StatedPlainLookup ==
    (op = "mi3_retort") =>
        result = IF insult \in DOMAIN monkey_island3
                 THEN Some(monkey_island3[insult])
                 ELSE None

\* C6 as amended: mi3_retort is the plain lookup in monkey_island3 for the
\* phrases that are not keys of captain_rottingham (present exactly when the
\* phrase is a key of monkey_island3, and then the mapped value); for a key
\* of captain_rottingham it is present and is the admonishment.
C6_PlainLookupOutsideRottingham ==
    (op = "mi3_retort") =>
        /\ insult \notin DOMAIN captain_rottingham =>
              /\ Len(result) = 1 <=> insult \in DOMAIN monkey_island3
              /\ Len(result) = 1 => result[1] = monkey_island3[insult]
        /\ insult \in DOMAIN captain_rottingham =>
              /\ Len(result) = 1
              /\ result[1] = CaptainRottinghamAdmonishment

C6_Witness ==
    /\ pc = "done" /\ op = "mi3_retort"
    /\ insult \in DOMAIN monkey_island3 /\ insult \in DOMAIN monkey_island4
    /\ insult \notin DOMAIN captain_rottingham
    /\ monkey_island3[insult] # monkey_island4[insult]
    /\ result = Some(monkey_island3[insult])

\* C7 as stated: retort_or_rand_fail never returns an empty string, and
\* returns retort(insult) when that is present and otherwise an element of
\* failed_retorts.
C7_StatedNeverEmpty ==
    (op = "retort_or_rand_fail" /\ pc = "done") =>
        /\ result # ""
        /\ IF insult \in AnyKeys
           THEN Some(result) = retort(insult)
           ELSE result \in Range(failed_retorts)

\* C7 as amended: whenever retort_or_rand_fail returns, it returns
\* retort(insult) when that is present and otherwise an element of
\* failed_retorts; the string is empty when the data holds an empty one.
C7_RetortOrFallback ==
    (op = "retort_or_rand_fail" /\ pc = "done") =>
        IF insult \in AnyKeys
        THEN Some(result) = retort(insult)
        ELSE result \in Range(failed_retorts)

C7_Witness ==
    /\ pc = "done" /\ op = "retort_or_rand_fail"
    /\ insult \notin AnyKeys /\ AnyKeys # {}
    /\ result = "" /\ result \in Range(failed_retorts)

\* C8: a call ends in a panic exactly when it samples an empty collection:
\* rand_failed_retort with no failed retorts, rand_insult with five empty
\* dictionaries, retort_or_rand_fail on an unmatched insult with no failed
\* retorts.  Every lookup returns, with an explicit None for no match.
C8_PanicOnlyOnEmptySample ==
    /\ (pc # "idle") =>
          (pc = "panic" <=>
              \/ op = "rand_failed_retort" /\ failed_retorts = <<>>
              \/ op = "rand_insult" /\ AnyKeys = {}
              \/ /\ op = "retort_or_rand_fail"
                 /\ insult \notin AnyKeys
                 /\ failed_retorts = <<>>)
    /\ (op \in {"retort", "mi1_retort", "sword_master_retort", "mi3_retort",
                "captain_rottingham_retort", "mi4_retort"}) =>
          /\ Len(result) <= 1
          /\ insult \notin AnyKeys => result = None
    /\ (op = "is_retort") => result \in BOOLEAN
    /\ (op = "retort_or_rand_fail" /\ insult \in AnyKeys) => pc = "done"

C8_Witness ==
    /\ pc = "panic" /\ op = "retort_or_rand_fail"
    /\ insult \notin AnyKeys /\ AnyKeys # {} /\ failed_retorts = <<>>

\* C9: insults() is the keys of monkey_island1, then of sword_master, then
\* of monkey_island3, then of captain_rottingham, then of monkey_island4,
\* each key of a dictionary once in its segment; its length is the sum of
\* the five sizes and a phrase occurs once per dictionary that has it.
C9_InsultsConcatenation ==
    (op = "insults") =>
        LET n1 == Cardinality(DOMAIN monkey_island1)
            n2 == n1 + Cardinality(DOMAIN sword_master)
            n3 == n2 + Cardinality(DOMAIN monkey_island3)
            n4 == n3 + Cardinality(DOMAIN captain_rottingham)
            n5 == n4 + Cardinality(DOMAIN monkey_island4)
        IN  /\ Len(result) = n5
            /\ Range(SubSeq(result, 1, n1)) = DOMAIN monkey_island1
            /\ Range(SubSeq(result, n1 + 1, n2)) = DOMAIN sword_master
            /\ Range(SubSeq(result, n2 + 1, n3)) = DOMAIN monkey_island3
            /\ Range(SubSeq(result, n3 + 1, n4)) = DOMAIN captain_rottingham
            /\ Range(SubSeq(result, n4 + 1, n5)) = DOMAIN monkey_island4
            /\ \A p \in Phrases : Count(result, p) = Holders(p)

C9_Witness ==
    /\ pc = "done" /\ op = "insults" /\ Len(result) = 2
    /\ DOMAIN sword_master # {} /\ DOMAIN captain_rottingham # {}
    /\ \E p \in Phrases : Count(result, p) = 2

\* C10: the captain_rottingham_retort step of retort never supplies the
\* result: for a key of captain_rottingham that is a key of neither
\* sword_master nor monkey_island1, retort returns the Captain Rottingham
\* admonishment, and whenever the fourth step is evaluated it is None.
C10_RottinghamStepIsDead ==
    (op = "retort") =>
        /\ (/\ insult \in DOMAIN captain_rottingham
            /\ insult \notin DOMAIN sword_master
            /\ insult \notin DOMAIN monkey_island1) =>
              /\ result = Some(CaptainRottinghamAdmonishment)
              /\ Len(steps) = 3
        /\ Len(steps) >= 4 => steps[4] = None

C10_Witness ==
    /\ pc = "done" /\ op = "retort"
    /\ insult \in DOMAIN captain_rottingham
    /\ insult \notin DOMAIN sword_master
    /\ insult \notin DOMAIN monkey_island1
    /\ insult \notin DOMAIN monkey_island3
    /\ result = Some(CaptainRottinghamAdmonishment)

=============================================================================
